---------------------------- MODULE Spec2Model ----------------------------
(***************************************************************************)
(* Settings application of ZSWatch                                         *)
(* (app/src/applications/settings/settings_app.c).                         *)
(*                                                                         *)
(* The state is the static menu descriptor (general_page_items,            *)
(* bluetooth_page_items), the persistent record settings/brightness, the   *)
(* built screen, and the trace of calls the module makes into its          *)
(* collaborators (display driver, Bluetooth stack, step counter, settings  *)
(* store).  One action per handler of the file.                            *)
(***************************************************************************)
EXTENDS Integers, Sequences, FiniteSets, TLC

VARIABLES
    general_page_items,    \* descriptors of the "General" page
    bluetooth_page_items,  \* descriptors of the "Bluetooth" page
    store,                 \* the record settings/brightness in flash
    store_ok,              \* the store accepts writes (FALSE: it is failing)
    phase,                 \* "boot": records are being replayed, "run": committed
    ui,                    \* the screen is built (between start and stop)
    slider_pos,            \* value shown by the built Brightness slider
    close_requested,       \* application_manager_app_close_request was made
    calls,                 \* collaborator calls made since power-on, in order
    last,                  \* the last handler that ran, its inputs and result
    committed,             \* last Brightness event: <<value, final, saved>>, or << >>
    nevents,               \* change events delivered so far
    nloads                 \* load callbacks run in this boot

vars == <<general_page_items, bluetooth_page_items, store, store_ok, phase, ui,
          slider_pos, close_requested, calls, last, committed,
          nevents, nloads>>

-----------------------------------------------------------------------------
(* Bounds of the exploration.                                              *)

MaxEvents == 3      \* change events per behaviour, all controls mixed
MaxDrag == 7        \* Brightness events per behaviour, slider alone
MaxLoads == 2       \* load callbacks per boot

-----------------------------------------------------------------------------
(* Program constants.                                                      *)

EINVAL == 22
ENOENT == 2
SizeofInt32 == 4          \* sizeof(bri), bri being int32_t
BT_ID_DEFAULT == 0
AoaInterval == 100
AoaWindow == 100

\* C integer division truncates toward zero; \div floors.
CDiv(a, b) ==
    IF a < 0 /\ a % b # 0 THEN (a \div b) + 1 ELSE a \div b

-----------------------------------------------------------------------------
(* The static menu: general_page_items[] and bluetooth_page_items[] as     *)
(* initialised in the file.  Indices are 1-based here, 0-based in C.       *)

GeneralPageItemsInit ==
    << [type |-> "SLIDER", name |-> "Brightness",
        change_callback |-> "on_brightness_changed",
        inital_val |-> 3, min_val |-> 1, max_val |-> 10],
       [type |-> "SWITCH", name |-> "Vibrate on click",
        change_callback |-> "NULL", inital_val |-> TRUE],
       [type |-> "SWITCH", name |-> "Display always on",
        change_callback |-> "on_display_on_changed", inital_val |-> TRUE],
       [type |-> "BTN", name |-> "Reset step counter",
        change_callback |-> "on_reset_steps_changed"] >>

BluetoothPageItemsInit ==
    << [type |-> "SWITCH", name |-> "Pairable",
        change_callback |-> "on_pairing_enable_changed", inital_val |-> FALSE],
       [type |-> "BTN", name |-> "Delete all bonded peers",
        change_callback |-> "on_clear_bonded_changed"],
       [type |-> "SWITCH", name |-> "AoA",
        change_callback |-> "on_aoa_enable_changed", inital_val |-> FALSE],
       [type |-> "SLIDER", name |-> "CTE Tx interval",
        change_callback |-> "NULL",
        inital_val |-> 100, min_val |-> 1, max_val |-> 10] >>

\* Every slider descriptor of the menu, both pages.
SliderItems ==
    {general_page_items[i] : i \in {j \in DOMAIN general_page_items :
                                      general_page_items[j].type = "SLIDER"}}
    \cup
    {bluetooth_page_items[i] : i \in {j \in DOMAIN bluetooth_page_items :
                                        bluetooth_page_items[j].type = "SLIDER"}}

Brightness == general_page_items[1]

-----------------------------------------------------------------------------
(* Calls into the collaborators, as entries of the trace.                  *)

Call(fn, key, args) == [fn |-> fn, key |-> key, args |-> args]

DisplaySetBrightness(percent) ==
    Call("display_control_set_brightness", "", <<percent>>)
SettingsSaveOne(key, val, len) == Call("settings_save_one", key, <<val, len>>)
BleAoaAdvertise(interval, window, enabled) ==
    Call("bleAoaAdvertise", "", <<interval, window, enabled>>)
BleCommSetPairable(on) ==
    Call("ble_comm_set_pairable", "", <<IF on THEN 1 ELSE 0>>)
BtUnpair(id) == Call("bt_unpair", "", <<id>>)
ZswImuResetStepCount == Call("zsw_imu_reset_step_count", "", << >>)

\* The entries of a trace that call fn, in order.
CallsTo(trace, fn) == SelectSeq(trace, LAMBDA c : c.fn = fn)

-----------------------------------------------------------------------------
(* The record of the last handler run.                                     *)

NoLoad == [name |-> << >>, len |-> 0, rc |-> 0, replay |-> FALSE,
           read |-> FALSE, bri |-> 0]

Ran(op, value, final, ret, made, load) ==
    [op |-> op, value |-> value, final |-> final, ret |-> ret,
     made |-> made, load |-> load]

NoRecord == [present |-> FALSE, len |-> 0, val |-> 0]

Init ==
    /\ general_page_items = GeneralPageItemsInit
    /\ bluetooth_page_items = BluetoothPageItemsInit
    /\ store = NoRecord
    /\ store_ok = TRUE
    /\ phase = "boot"
    /\ ui = FALSE
    /\ slider_pos = 0
    /\ close_requested = FALSE
    /\ calls = << >>
    /\ last = Ran("SYS_INIT", 0, FALSE, 0, << >>, NoLoad)
    /\ committed = << >>
    /\ nevents = 0
    /\ nloads = 0

-----------------------------------------------------------------------------
(* Inputs the environment supplies.                                        *)

\* bt_unpair: 0, or a negative errno.
UnpairResults == {0, -22}
\* read_cb: the number of bytes read, or a negative errno.
ReadResults == {4, -5}
\* What bri holds when read_cb failed: it was never initialised, so any
\* int32 may be there.  A sample with both ends and both signs.
UninitValues == {-2147483647 - 1, 0, 50, 2147483647}

-----------------------------------------------------------------------------
(* Screen binding: settings_app_start, settings_app_stop,                  *)
(* on_close_settings.                                                      *)

\* lv_settings_create shows each slider at its inital_val, which the
\* widget keeps inside [min_val, max_val].
SliderShown(item) ==
    IF item.inital_val < item.min_val THEN item.min_val
    ELSE IF item.inital_val > item.max_val THEN item.max_val
    ELSE item.inital_val

\* Mutant: the screen pushes the slider's brightness when it is built.
settings_app_start_applies ==
    /\ phase = "run"
    /\ ~ui
    /\ ui' = TRUE
    /\ slider_pos' = SliderShown(Brightness)
    /\ close_requested' = FALSE
    /\ calls' = calls
                 \o << DisplaySetBrightness(SliderShown(Brightness) * 10) >>
    /\ last' = Ran("settings_app_start", 0, FALSE, 0, << >>, NoLoad)
    /\ UNCHANGED <<general_page_items, bluetooth_page_items, store, store_ok,
                   phase, committed, nevents, nloads>>

settings_app_start ==
    /\ phase = "run"
    /\ ~ui
    /\ ui' = TRUE
    /\ slider_pos' = SliderShown(Brightness)
    /\ close_requested' = FALSE
    /\ last' = Ran("settings_app_start", 0, FALSE, 0, << >>, NoLoad)
    /\ UNCHANGED <<general_page_items, bluetooth_page_items, store, store_ok, phase,
                   calls, committed, nevents, nloads>>

settings_app_stop ==
    /\ ui
    /\ ui' = FALSE
    /\ last' = Ran("settings_app_stop", 0, FALSE, 0, << >>, NoLoad)
    /\ UNCHANGED <<general_page_items, bluetooth_page_items, store, store_ok, phase,
                   slider_pos, close_requested, calls, committed,
                   nevents, nloads>>

\* Mutant: the close handler removes the screen itself.
on_close_settings_removes ==
    /\ ui
    /\ ~close_requested
    /\ close_requested' = TRUE
    /\ ui' = FALSE
    /\ last' = Ran("on_close_settings", 0, FALSE, 0, << >>, NoLoad)
    /\ UNCHANGED <<general_page_items, bluetooth_page_items, store, store_ok,
                   phase, slider_pos, calls, committed, nevents, nloads>>

on_close_settings ==
    /\ ui
    /\ ~close_requested
    /\ close_requested' = TRUE
    /\ last' = Ran("on_close_settings", 0, FALSE, 0, << >>, NoLoad)
    /\ UNCHANGED <<general_page_items, bluetooth_page_items, store, store_ok, phase,
                   ui, slider_pos, calls, committed, nevents, nloads>>

-----------------------------------------------------------------------------
(* Domain handlers.                                                        *)

\* Mutant: the slider value handed over unscaled.
BrightnessPercent_unscaled(slider) == slider

\* value.item.slider * 10: the percent handed to the display driver.
BrightnessPercent(slider) == slider * 10

\* Mutant: the slider value saved unscaled.
BrightnessSaved_unscaled(slider) == slider

\* value.item.slider *= 10: the value handed to settings_save_one.
BrightnessSaved(slider) == slider * 10

\* Mutant: a committed value is also written back to the descriptor.
on_brightness_changed_updates(value, final) ==
    LET made == << DisplaySetBrightness(value * 10),
                   SettingsSaveOne("settings/brightness", value * 10, 4) >>
    IN  /\ calls' = calls \o made
        /\ store' = IF store_ok
                    THEN [present |-> TRUE, len |-> 4, val |-> value * 10]
                    ELSE store
        /\ last' = Ran("on_brightness_changed", value, final,
                       IF store_ok THEN 0 ELSE -5, made, NoLoad)
        /\ committed' = <<value, final, store_ok>>
        /\ general_page_items' =
              IF final
              THEN [general_page_items EXCEPT ![1].inital_val = value]
              ELSE general_page_items
        /\ UNCHANGED <<bluetooth_page_items, store_ok>>

\* settings_save_one: 0 and the record written, or a negative errno and
\* the record as it was.
SaveResult == IF store_ok THEN 0 ELSE -5

\* display_control_set_brightness, then settings_save_one: both calls are
\* unconditional, final is not read.  The return value of
\* settings_save_one is dropped.
on_brightness_changed(value, final) ==
    LET made == << DisplaySetBrightness(BrightnessPercent(value)),
                   SettingsSaveOne("settings/brightness",
                                   BrightnessSaved(value), SizeofInt32) >>
    IN  /\ calls' = calls \o made
        /\ store' = IF SaveResult = 0
                    THEN [present |-> TRUE, len |-> SizeofInt32,
                          val |-> BrightnessSaved(value)]
                    ELSE store
        /\ last' = Ran("on_brightness_changed", value, final, SaveResult,
                       made, NoLoad)
        /\ committed' = <<value, final, SaveResult = 0>>
        /\ UNCHANGED <<general_page_items, bluetooth_page_items, store_ok>>

\* Mutant: the switch drives the backlight to full or to the default.
on_display_on_changed_acts(value, final) ==
    LET made == << DisplaySetBrightness(IF value THEN 100 ELSE 30) >>
    IN  /\ calls' = calls \o made
        /\ last' = Ran("on_display_on_changed", value, final, 0, made, NoLoad)
        /\ UNCHANGED <<general_page_items, bluetooth_page_items, store,
                       store_ok, committed>>

on_display_on_changed(value, final) ==
    /\ last' = Ran("on_display_on_changed", value, final, 0, << >>, NoLoad)
    /\ UNCHANGED <<general_page_items, bluetooth_page_items, store, store_ok, calls,
                   committed>>

\* Mutant: advertising always enabled.
AoaEnabled_stuck(sw) == 1

\* The third argument of bleAoaAdvertise for a switch value.
AoaEnabled(sw) == IF sw THEN 1 ELSE 0

on_aoa_enable_changed(value, final) ==
    LET made == << BleAoaAdvertise(AoaInterval, AoaWindow, AoaEnabled(value)) >>
    IN  /\ calls' = calls \o made
        /\ last' = Ran("on_aoa_enable_changed", value, final, 0, made, NoLoad)
        /\ UNCHANGED <<general_page_items, bluetooth_page_items, store, store_ok,
                       committed>>

\* Mutant: the branches swapped.
PairableArg_swapped(sw) == IF sw THEN FALSE ELSE TRUE

\* The argument of ble_comm_set_pairable for a switch value.
PairableArg(sw) == IF sw THEN TRUE ELSE FALSE

on_pairing_enable_changed(value, final) ==
    LET made == << BleCommSetPairable(PairableArg(value)) >>
    IN  /\ calls' = calls \o made
        /\ last' = Ran("on_pairing_enable_changed", value, final, 0, made,
                       NoLoad)
        /\ UNCHANGED <<general_page_items, bluetooth_page_items, store, store_ok,
                       committed>>

\* Mutant: the test of final left out.
ClearBondedActs_always(final) == TRUE

\* if (final) of on_clear_bonded_changed.
ClearBondedActs(final) == final

on_clear_bonded_changed(value, final) ==
    \E err \in UnpairResults :
        LET made == IF ClearBondedActs(final)
                    THEN << BtUnpair(BT_ID_DEFAULT) >> ELSE << >>
        IN  /\ calls' = calls \o made
            /\ last' = Ran("on_clear_bonded_changed", value, final,
                           IF ClearBondedActs(final) THEN err ELSE 0,
                           made, NoLoad)
            /\ UNCHANGED <<general_page_items, bluetooth_page_items, store, store_ok,
                           committed>>

\* if (final) of on_reset_steps_changed.
ResetStepsActs(final) == final

on_reset_steps_changed(value, final) ==
    LET made == IF ResetStepsActs(final)
                THEN << ZswImuResetStepCount >> ELSE << >>
    IN  /\ calls' = calls \o made
        /\ last' = Ran("on_reset_steps_changed", value, final, 0, made, NoLoad)
        /\ UNCHANGED <<general_page_items, bluetooth_page_items, store, store_ok,
                       committed>>

-----------------------------------------------------------------------------
(* Persistence: settings_load_cb and setting_on_commit, registered for the *)
(* subtree "settings" by SETTINGS_STATIC_HANDLER_DEFINE.                   *)

\* Names are strings of characters; the host hands the callback the part
\* of the key after "settings/".
BrightnessKey == <<"b", "r", "i", "g", "h", "t", "n", "e", "s", "s">>

\* Index of the first character at which the comparison loop of
\* settings_name_steq stops: key exhausted, name exhausted, a mismatch, or
\* the end-of-name mark '=' in name.
RECURSIVE SteqStop(_, _, _)
SteqStop(name, key, i) ==
    IF /\ i <= Len(key)
       /\ i <= Len(name)
       /\ key[i] = name[i]
       /\ name[i] # "="
    THEN SteqStop(name, key, i + 1)
    ELSE i

\* settings_name_steq(name, key, &next): ret is 1 when name is key or key
\* followed by '/' and more; next is the part after the '/', else NULL.
settings_name_steq(name, key) ==
    LET i == SteqStop(name, key, 1)
        null == [isnull |-> TRUE, str |-> << >>]
    IN  IF i <= Len(key) THEN [ret |-> 0, next |-> null]
        ELSE IF i <= Len(name) /\ name[i] = "/"
        THEN [ret |-> 1,
              next |-> [isnull |-> FALSE, str |-> SubSeq(name, i + 1, Len(name))]]
        ELSE IF i > Len(name) \/ name[i] = "="
        THEN [ret |-> 1, next |-> null]
        ELSE [ret |-> 0, next |-> null]

\* Mutant: the test of next left out.
IsBrightnessKey_prefix(name) ==
    settings_name_steq(name, BrightnessKey).ret = 1

\* settings_name_steq(name, "brightness", &next) && !next
IsBrightnessKey(name) ==
    LET m == settings_name_steq(name, BrightnessKey)
    IN  m.ret = 1 /\ m.next.isnull

\* Mutant: only records that are too long rejected.
LenOk_atmost(len) == len <= SizeofInt32

\* len != sizeof(bri) rejects the record.
LenOk(len) == len = SizeofInt32

\* Mutant: the division left out.
LoadedInitial_unscaled(bri) == bri

\* general_page_items[0].item.slider.inital_val = bri / 10
LoadedInitial(bri) == CDiv(bri, 10)

\* The values bri may hold after rc = read_cb(cb_arg, &bri, sizeof(bri)):
\* the record's value when the read succeeded; otherwise bri was never
\* written and holds whatever the stack held.
BriAfterRead(rc, data) == IF rc >= 0 THEN {data} ELSE UninitValues

\* The return value once the record was read: 0 if (rc >= 0), else rc.
LoadResult(rc) == IF rc >= 0 THEN 0 ELSE rc

settings_load_cb(name, len, rc, data, replay) ==
    LET load == [name |-> name, len |-> len, rc |-> rc, replay |-> replay,
                 read |-> FALSE, bri |-> 0]
    IN  IF IsBrightnessKey(name)
        THEN IF ~LenOk(len)
             THEN /\ last' = Ran("settings_load_cb", 0, FALSE, -EINVAL,
                                 << >>, load)
                  /\ UNCHANGED <<general_page_items, bluetooth_page_items,
                                 calls>>
             ELSE \E bri \in BriAfterRead(rc, data) :
                      LET made == << DisplaySetBrightness(bri) >>
                      IN  /\ general_page_items' =
                                [general_page_items EXCEPT
                                    ![1].inital_val = LoadedInitial(bri)]
                          /\ calls' = calls \o made
                          /\ last' = Ran("settings_load_cb", 0, FALSE,
                                         LoadResult(rc), made,
                                         [load EXCEPT !.read = TRUE,
                                                      !.bri = bri])
                          /\ UNCHANGED bluetooth_page_items
        ELSE /\ last' = Ran("settings_load_cb", 0, FALSE, -ENOENT, << >>, load)
             /\ UNCHANGED <<general_page_items, bluetooth_page_items, calls>>

\* Mutant: the commit barrier pushes the descriptor's brightness.
setting_on_commit_applies ==
    /\ phase = "boot"
    /\ phase' = "run"
    /\ calls' = calls \o << DisplaySetBrightness(Brightness.inital_val * 10) >>
    /\ last' = Ran("setting_on_commit", 0, FALSE, 0, << >>, NoLoad)
    /\ UNCHANGED <<general_page_items, bluetooth_page_items, store, store_ok,
                   ui, slider_pos, close_requested, committed,
                   nevents, nloads>>

setting_on_commit ==
    /\ phase = "boot"
    /\ phase' = "run"
    /\ last' = Ran("setting_on_commit", 0, FALSE, 0, << >>, NoLoad)
    /\ UNCHANGED <<general_page_items, bluetooth_page_items, store, store_ok, ui,
                   slider_pos, close_requested, calls, committed,
                   nevents, nloads>>

-----------------------------------------------------------------------------
(* The host: the settings subsystem replaying records at boot, a power     *)
(* cycle, and the menu engine dispatching change events of a built screen. *)

\* Records another writer may have left under "settings/".
ForeignNames ==
    { BrightnessKey,
      BrightnessKey \o <<"/", "x">>,
      BrightnessKey \o <<"/">>,
      BrightnessKey \o <<"x">>,
      BrightnessKey \o <<"=", "x">>,
      <<"b", "r", "i", "g", "h", "t">>,
      <<"v", "o", "l">>,
      << >> }
ForeignLens == {0, 1, 4, 8}
ForeignValues == {-2147483647 - 1, -15, 0, 9, 10, 100, 109, 110, 2147483647}

\* The name proper: what precedes the end-of-name mark '='.
RECURSIVE RecordName(_)
RecordName(name) ==
    IF name = << >> \/ Head(name) = "=" THEN << >>
    ELSE <<Head(name)>> \o RecordName(Tail(name))

\* settings_load replays the stored record settings/brightness, once per
\* boot and before any other record.
HostReplay ==
    /\ phase = "boot"
    /\ store.present
    /\ nloads = 0
    /\ nloads' = nloads + 1
    /\ \E rc \in ReadResults :
           settings_load_cb(BrightnessKey, store.len, rc, store.val, TRUE)
    /\ UNCHANGED <<store, store_ok, phase, ui, slider_pos, close_requested, committed,
                   nevents>>

\* settings_load finds a record this build did not write.
HostLoadForeign ==
    /\ phase = "boot"
    /\ nloads < MaxLoads
    /\ nloads' = nloads + 1
    /\ \E name \in ForeignNames, len \in ForeignLens,
          rc \in ReadResults, data \in ForeignValues :
           settings_load_cb(name, len, rc, data, FALSE)
    /\ UNCHANGED <<store, store_ok, phase, ui, slider_pos, close_requested, committed,
                   nevents>>

\* Power cycle: RAM is reinitialised, the store survives.
Reboot ==
    /\ general_page_items' = GeneralPageItemsInit
    /\ bluetooth_page_items' = BluetoothPageItemsInit
    /\ phase' = "boot"
    /\ ui' = FALSE
    /\ slider_pos' = 0
    /\ close_requested' = FALSE
    /\ calls' = << >>
    /\ nloads' = 0
    /\ last' = Ran("reboot", 0, FALSE, 0, << >>, NoLoad)
    /\ UNCHANGED <<store, store_ok, committed, nevents>>

\* The flash starts or stops refusing writes.
StoreFails ==
    /\ store_ok
    /\ store_ok' = FALSE
    /\ UNCHANGED <<general_page_items, bluetooth_page_items, store, phase,
                   ui, slider_pos, close_requested, calls, last, committed,
                   nevents, nloads>>

StoreRecovers ==
    /\ ~store_ok
    /\ store_ok' = TRUE
    /\ UNCHANGED <<general_page_items, bluetooth_page_items, store, phase,
                   ui, slider_pos, close_requested, calls, last, committed,
                   nevents, nloads>>

\* A change event of the Brightness slider: the knob stays or moves one
\* step inside [min_val, max_val]; final tells a release from a drag step.
BrightnessEvent(budget) ==
    /\ ui
    /\ nevents < budget
    /\ nevents' = nevents + 1
    /\ \E d \in {-1, 0, 1}, final \in BOOLEAN :
           LET v == slider_pos + d
           IN  /\ Brightness.min_val <= v
               /\ v <= Brightness.max_val
               /\ slider_pos' = v
               /\ on_brightness_changed(v, final)
    /\ UNCHANGED <<phase, ui, close_requested, nloads>>

DisplayOnEvent ==
    /\ ui
    /\ nevents < MaxEvents
    /\ nevents' = nevents + 1
    /\ \E sw \in BOOLEAN, final \in BOOLEAN : on_display_on_changed(sw, final)
    /\ UNCHANGED <<phase, ui, slider_pos, close_requested, nloads>>

AoaEvent ==
    /\ ui
    /\ nevents < MaxEvents
    /\ nevents' = nevents + 1
    /\ \E sw \in BOOLEAN, final \in BOOLEAN : on_aoa_enable_changed(sw, final)
    /\ UNCHANGED <<phase, ui, slider_pos, close_requested, nloads>>

PairableEvent ==
    /\ ui
    /\ nevents < MaxEvents
    /\ nevents' = nevents + 1
    /\ \E sw \in BOOLEAN, final \in BOOLEAN :
           on_pairing_enable_changed(sw, final)
    /\ UNCHANGED <<phase, ui, slider_pos, close_requested, nloads>>

\* The items of both pages that have no change_callback.
ItemsWithoutCallback ==
    { item \in { general_page_items[i] : i \in DOMAIN general_page_items }
               \cup
               { bluetooth_page_items[i] : i \in DOMAIN bluetooth_page_items } :
        item.change_callback = "NULL" }

\* A change of an item that has no change_callback: the engine has
\* nothing to call.
NoCallbackEvent ==
    /\ ui
    /\ nevents < MaxEvents
    /\ nevents' = nevents + 1
    /\ \E item \in ItemsWithoutCallback :
           last' = Ran("NULL", item.name, TRUE, 0, << >>, NoLoad)
    /\ UNCHANGED <<general_page_items, bluetooth_page_items, store, store_ok,
                   phase, ui, slider_pos, close_requested, calls, committed,
                   nloads>>

ClearBondedEvent ==
    /\ ui
    /\ nevents < MaxEvents
    /\ nevents' = nevents + 1
    /\ \E final \in BOOLEAN : on_clear_bonded_changed(0, final)
    /\ UNCHANGED <<phase, ui, slider_pos, close_requested, nloads>>

ResetStepsEvent ==
    /\ ui
    /\ nevents < MaxEvents
    /\ nevents' = nevents + 1
    /\ \E final \in BOOLEAN : on_reset_steps_changed(0, final)
    /\ UNCHANGED <<phase, ui, slider_pos, close_requested, nloads>>

-----------------------------------------------------------------------------
(* Specifications.                                                         *)

\* The whole application: boot, the screen, every control.
Next ==
    \/ StoreFails
    \/ StoreRecovers
    \/ Reboot
    \/ HostReplay
    \/ setting_on_commit
    \/ settings_app_start
    \/ settings_app_stop
    \/ on_close_settings
    \/ BrightnessEvent(MaxEvents)
    \/ DisplayOnEvent
    \/ NoCallbackEvent
    \/ AoaEvent
    \/ PairableEvent
    \/ ClearBondedEvent
    \/ ResetStepsEvent

Spec == Init /\ [][Next]_vars

\* The Brightness slider alone, over longer drags, with the store replayed
\* after a power cycle.
NextSlider ==
    \/ Reboot
    \/ HostReplay
    \/ setting_on_commit
    \/ settings_app_start
    \/ settings_app_stop
    \/ BrightnessEvent(MaxDrag)

SpecSlider == Init /\ [][NextSlider]_vars

\* Boot with records in the store that this build did not write.
NextLoad ==
    \/ Reboot
    \/ HostLoadForeign
    \/ setting_on_commit
    \/ settings_app_start
    \/ settings_app_stop

SpecLoad == Init /\ [][NextLoad]_vars

-----------------------------------------------------------------------------
(* Properties.                                                             *)

\* A step that delivers a change event to a handler.
EventStep == nevents' = nevents + 1
\* A step that runs settings_load_cb.
LoadStep == nloads' = nloads + 1

SaveCalls(trace) == CallsTo(trace, "settings_save_one")
DisplayCalls(trace) == CallsTo(trace, "display_control_set_brightness")

\* C1: the Brightness handler writes settings/brightness only when it is
\* invoked with final = TRUE: an event with final = FALSE makes no save,
\* an event with final = TRUE makes exactly one, so an interaction of n
\* events saves once, on its last event.
C1_SaveOnlyWhenFinal ==
    last.op = "on_brightness_changed" =>
        Len(SaveCalls(last.made)) = (IF last.final THEN 1 ELSE 0)

\* C2: Brightness round trip.  When the last slider event before a power
\* cycle committed v (final = TRUE, the record written) and the store
\* replays the record with a reader that succeeds, the load callback
\* returns 0, calls display_control_set_brightness exactly once with the
\* persisted value v * 10, and leaves the Brightness descriptor with
\* inital_val = persisted / 10 = v, the screen not yet built.
C2_BrightnessRoundTrip ==
    ( /\ last.op = "settings_load_cb"
      /\ last.load.replay
      /\ last.load.rc >= 0
      /\ committed # << >>
      /\ committed[2]
      /\ committed[3] )
    => LET v == committed[1]
       IN  /\ v \in 1..10
           /\ store = [present |-> TRUE, len |-> 4, val |-> v * 10]
           /\ last.ret = 0
           /\ last.made = << DisplaySetBrightness(v * 10) >>
           /\ calls = << DisplaySetBrightness(v * 10) >>
           /\ Brightness.inital_val = v
           /\ ~ui

\* Reached: the round trip of the largest slider value.
C2_RoundTripOfTen ==
    /\ last.op = "settings_load_cb"
    /\ last.load.replay
    /\ last.load.rc >= 0
    /\ committed = <<10, TRUE, TRUE>>
    /\ Brightness.inital_val = 10

\* C3: when the load callback gets a brightness record of the right
\* length and the reader fails, it returns the reader's negative result,
\* the Brightness slider keeps its compiled-in inital_val (3) and nothing
\* is pushed to the display driver.
C3_FailedReadKeepsDefault ==
    ( /\ last.op = "settings_load_cb"
      /\ RecordName(last.load.name) = BrightnessKey
      /\ last.load.len = 4
      /\ last.load.rc < 0 )
    => /\ last.ret = last.load.rc
       /\ Brightness.inital_val = 3
       /\ last.made = << >>

\* C4: a brightness record whose length is not 4 makes the load callback
\* return -EINVAL without calling the reader or
\* display_control_set_brightness, the Brightness inital_val unchanged.
C4_WrongLengthRejected ==
    [][ ( /\ LoadStep
          /\ RecordName(last'.load.name) = BrightnessKey
          /\ last'.load.len # 4 )
        => /\ last'.op = "settings_load_cb"
           /\ last'.ret = -22
           /\ ~last'.load.read
           /\ last'.made = << >>
           /\ calls' = calls
           /\ general_page_items' = general_page_items ]_vars

\* Reached: a brightness record of 8 bytes was rejected after an earlier
\* record had been loaded.
C4_WrongLengthSeen ==
    /\ last.op = "settings_load_cb"
    /\ last.load.name = BrightnessKey
    /\ last.load.len = 8
    /\ last.ret = -22
    /\ Brightness.inital_val = 10
    /\ Len(calls) = 1

\* C5: for every record name other than exactly "brightness", whatever
\* the length, the load callback returns -ENOENT, changes no descriptor
\* and calls neither the reader nor a driver.
C5_UnknownNameNotFound ==
    [][ ( /\ LoadStep
          /\ RecordName(last'.load.name) # BrightnessKey )
        => /\ last'.op = "settings_load_cb"
           /\ last'.ret = -2
           /\ ~last'.load.read
           /\ last'.made = << >>
           /\ calls' = calls
           /\ general_page_items' = general_page_items
           /\ bluetooth_page_items' = bluetooth_page_items ]_vars

\* Reached: "brightness/x" with a length of 4 was answered -ENOENT.
C5_SubkeySeen ==
    /\ last.op = "settings_load_cb"
    /\ last.load.name = BrightnessKey \o <<"/", "x">>
    /\ last.load.len = 4
    /\ last.ret = -2

\* C6: every slider descriptor of the static menu (Brightness and CTE Tx
\* interval) is constructed with min_val <= inital_val <= max_val.
C6_SliderInitialWithinBounds ==
    last.op = "SYS_INIT" =>
        \A item \in SliderItems :
            item.min_val <= item.inital_val /\ item.inital_val <= item.max_val

\* C7: every Brightness event, final or not, calls
\* display_control_set_brightness exactly once, with value * 10, which
\* for values in 1..10 lies in 0..100; so a drag from 3 to 7 and a release
\* give the calls 40, 50, 60, 70, 70.
C7_DisplayFollowsSlider ==
    [][ ( /\ EventStep
          /\ last'.op = "on_brightness_changed" )
        => LET v == last'.value
           IN  /\ v \in 1..10
               /\ v * 10 \in 0..100
               /\ DisplayCalls(last'.made) = << DisplaySetBrightness(v * 10) >>
               /\ DisplayCalls(calls') =
                      DisplayCalls(calls) \o << DisplaySetBrightness(v * 10) >>
      ]_vars

\* Reached: the drag from 3 to 7 and its release.
C7_DragThreeToSeven ==
    /\ last.op = "on_brightness_changed"
    /\ last.value = 7
    /\ last.final
    /\ DisplayCalls(calls) =
          << DisplaySetBrightness(40), DisplaySetBrightness(50),
             DisplaySetBrightness(60), DisplaySetBrightness(70),
             DisplaySetBrightness(70) >>

\* C8: the two button handlers act on final events only: with
\* final = TRUE on_clear_bonded_changed calls bt_unpair(BT_ID_DEFAULT) once
\* and on_reset_steps_changed calls zsw_imu_reset_step_count once; with
\* final = FALSE neither calls anything.
C8_ButtonsActOnFinalOnly ==
    [][ /\ ( EventStep /\ last'.op = "on_clear_bonded_changed" )
           => calls' = calls \o (IF last'.final
                                  THEN << BtUnpair(0) >> ELSE << >>)
        /\ ( EventStep /\ last'.op = "on_reset_steps_changed" )
           => calls' = calls \o (IF last'.final
                                  THEN << ZswImuResetStepCount >> ELSE << >>)
      ]_vars

\* Reached: a final press of each button made its one call, and a press
\* delivered with final = FALSE then made none.
C8_BothButtonsPressed ==
    /\ last.op = "on_clear_bonded_changed"
    /\ ~last.final
    /\ calls = << BtUnpair(0), ZswImuResetStepCount >>

\* C9: every event of the Pairable switch calls ble_comm_set_pairable
\* exactly once with the switch value, in the order of the events, and
\* writes nothing to the store.
C9_PairableFollowsSwitch ==
    [][ ( EventStep /\ last'.op = "on_pairing_enable_changed" )
        => /\ calls' = calls \o << BleCommSetPairable(last'.value) >>
           /\ SaveCalls(last'.made) = << >>
           /\ store' = store ]_vars

\* Reached: Pairable switched on, then off, nothing stored.
C9_OnThenOff ==
    /\ last.op = "on_pairing_enable_changed"
    /\ calls = << BleCommSetPairable(TRUE), BleCommSetPairable(FALSE) >>
    /\ ~store.present

\* C10: every event of the AoA switch calls bleAoaAdvertise exactly once,
\* with interval 100, window 100 and enabled 1 for TRUE, 0 for FALSE, and
\* makes no other call and no save.
C10_AoaFollowsSwitch ==
    [][ ( EventStep /\ last'.op = "on_aoa_enable_changed" )
        => /\ calls' = calls \o << BleAoaAdvertise(100, 100,
                                       IF last'.value THEN 1 ELSE 0) >>
           /\ store' = store ]_vars

\* Reached: AoA enabled, then disabled.
C10_EnabledThenDisabled ==
    /\ last.op = "on_aoa_enable_changed"
    /\ calls = << BleAoaAdvertise(100, 100, 1), BleAoaAdvertise(100, 100, 0) >>

\* A step of settings_app_start or of settings_app_stop.
StartStep == ~ui /\ ui' /\ last'.op = "settings_app_start"
StopStep == ui /\ ~ui' /\ last'.op = "settings_app_stop"

\* C11: starting and stopping the screen, any number of times, calls no
\* collaborator (display driver, Bluetooth stack, step counter), writes
\* nothing to the store and leaves every item descriptor as it was; with
\* no change event delivered since power-on, the trace of calls holds
\* only what the boot-time load put there.
C11_StartStopTouchNothing ==
    [][ /\ ( StartStep \/ StopStep )
           => /\ calls' = calls
              /\ store' = store
              /\ general_page_items' = general_page_items
              /\ bluetooth_page_items' = bluetooth_page_items
        /\ ( nevents' = 0 /\ nloads' = 0 )
           => /\ calls' = << >>
              /\ store' = NoRecord
              /\ general_page_items' = GeneralPageItemsInit
              /\ bluetooth_page_items' = BluetoothPageItemsInit
      ]_vars

\* Reached: the screen was started, closed and stopped with no change
\* event and no load, and nothing was called or stored.
C11_StartedAndStopped ==
    /\ last.op = "settings_app_stop"
    /\ close_requested
    /\ nevents = 0
    /\ nloads = 0
    /\ calls = << >>
    /\ ~store.present

\* C12: on a fresh boot with an empty store (no load callback ran) and
\* before the first change event, the Brightness descriptor holds
\* inital_val 3, a built screen shows the slider at 3, and
\* display_control_set_brightness has not been called.
C12_FreshBootShowsDefault ==
    ( nevents = 0 /\ nloads = 0 )
    => /\ ~store.present
       /\ Brightness.inital_val = 3
       /\ ui => slider_pos = 3
       /\ DisplayCalls(calls) = << >>

\* Reached: the screen built after a fresh boot, past the commit barrier.
C12_FreshScreenBuilt ==
    /\ last.op = "settings_app_start"
    /\ phase = "run"
    /\ ui
    /\ nevents = 0
    /\ nloads = 0
    /\ slider_pos = 3

\* A power cycle: the static menu is initialised again.
RebootStep == last'.op = "reboot"

\* C13: the menu descriptor is written only by the boot-time load
\* callback: no change handler, start, stop or close changes a
\* descriptor, so a screen built again after a committed Brightness
\* change, with no reboot between, shows the slider at the inital_val it
\* had before.
C13_OnlyLoadWritesDescriptor ==
    [][ ( ~LoadStep /\ ~RebootStep )
        => /\ general_page_items' = general_page_items
           /\ bluetooth_page_items' = bluetooth_page_items ]_vars

\* Reached: 5 was committed and stored, the screen was stopped and
\* started again, and the slider is back at the default 3.
C13_RebuiltAtOldValue ==
    /\ last.op = "settings_app_start"
    /\ committed = <<5, TRUE, TRUE>>
    /\ store.val = 50
    /\ nloads = 0
    /\ slider_pos = 3
    /\ Brightness.inital_val = 3

\* C14: screen lifecycle.  The screen is built by settings_app_start
\* only, with no close request pending; on_close_settings only records
\* the close request with the application manager and leaves the screen
\* built; the screen is removed by settings_app_stop (or lost with a
\* power cycle); and a change callback runs only while the screen is
\* built, so none runs between a stop and the next start.
C14_ScreenLifecycle ==
    [][ /\ ( ~ui /\ ui' )
           => last'.op = "settings_app_start" /\ ~close_requested'
        /\ ( ~close_requested /\ close_requested' )
           => /\ last'.op = "on_close_settings"
              /\ ui /\ ui'
              /\ calls' = calls
        /\ ( ui /\ ~ui' )
           => last'.op \in {"settings_app_stop", "reboot"}
        /\ EventStep => ( ui /\ ui' )
      ]_vars

\* Reached: after change events the close was requested and the screen
\* then stopped.
C14_ClosedThenStopped ==
    /\ last.op = "settings_app_stop"
    /\ close_requested
    /\ ~ui
    /\ nevents = 2

\* C15: after the load callback has processed a brightness record of 4
\* bytes that the reader delivered, whatever int32 it holds, the
\* Brightness inital_val lies within [min_val, max_val] = [1, 10]: a
\* value whose tenth is outside the bounds does not replace it.
C15_LoadedInitialWithinBounds ==
    ( /\ last.op = "settings_load_cb"
      /\ RecordName(last.load.name) = BrightnessKey
      /\ last.load.len = 4
      /\ last.load.rc >= 0 )
    => /\ Brightness.min_val <= Brightness.inital_val
       /\ Brightness.inital_val <= Brightness.max_val
       /\ Brightness.min_val = 1
       /\ Brightness.max_val = 10

\* C16: the record settings/brightness, when present, is 4 bytes long
\* and holds a multiple of 10 in [10, 100], which is 10 times the value
\* of the most recent Brightness event that saved.
C16_RecordIsPercent ==
    store.present
    => /\ store.len = 4
       /\ store.val \in 10..100
       /\ store.val % 10 = 0
       /\ committed # << >>
       /\ committed[3] => store.val = 10 * committed[1]

\* Reached: after a power cycle and the replay of the record, a drag
\* step (final = FALSE) at the top of the range was the last to save.
C16_DragStepSavedHundred ==
    /\ last.op = "settings_load_cb"
    /\ last.load.replay
    /\ committed = <<10, FALSE, TRUE>>
    /\ store = [present |-> TRUE, len |-> 4, val |-> 100]

\* C17: the reserved items have no effect.  "Vibrate on click" and "CTE
\* Tx interval" have no change_callback at all, and are the only such
\* items; an event of either, or of "Display always on" with any value
\* and final flag, calls no collaborator, writes nothing to the store and
\* changes no descriptor.
C17_ReservedItemsDoNothing ==
    [][ /\ ItemsWithoutCallback' =
              { GeneralPageItemsInit[2], BluetoothPageItemsInit[4] }
        /\ general_page_items'[2].name = "Vibrate on click"
        /\ bluetooth_page_items'[4].name = "CTE Tx interval"
        /\ general_page_items'[3].change_callback = "on_display_on_changed"
        /\ ( EventStep /\ last'.op \in {"on_display_on_changed", "NULL"} )
           => /\ calls' = calls
              /\ last'.made = << >>
              /\ store' = store
              /\ general_page_items' = general_page_items
              /\ bluetooth_page_items' = bluetooth_page_items
      ]_vars

\* Reached: all three reserved items were operated and nothing was
\* called or stored.
C17_ReservedItemsOperated ==
    /\ last.op = "on_display_on_changed"
    /\ last.value = FALSE
    /\ ~last.final
    /\ nevents = 3
    /\ calls = << >>
    /\ ~store.present

=============================================================================
